---- MODULE Spec2Model ----
(***************************************************************************)
(* Model of src/frontend/pyjukebox/src/main.ts, the bootstrap of the       *)
(* pyjukebox front end.  main.ts is one script: four imports, evaluated in *)
(* import order before the body, then three effects of the body            *)
(*     Vue.config.productionTip = false                                    *)
(*     new Vue({ router, render: x => x(App) })                            *)
(*     .$mount('#app')                                                     *)
(* Every call into code outside main.ts (the evaluation of an imported     *)
(* module, the Vue constructor, $mount) either returns or throws; main.ts  *)
(* has no try/catch, so a throw ends the script.  The render function of   *)
(* the root options is a callback the framework invokes, with an element   *)
(* factory of its choice, once $mount has been called.                     *)
(***************************************************************************)
EXTENDS Naturals, Sequences, FiniteSets

VARIABLES
    pc,             \* index in Program of the next statement of main.ts
    status,         \* "running" | "in $mount" | "done" | "failed"
    thrown,         \* the statement whose call threw, or "none"
    trace,          \* the statements main.ts has started, in order
    evaluated,      \* the imported modules whose evaluation completed, in order
    productionTip,  \* Vue.config.productionTip: "undefined" until vue is evaluated
    router,         \* the binding of `import router`: "undefined" until evaluated
    roots,          \* the root Vue instances constructed, each by its options
    mounts,         \* the $mount calls made: [vm |-> instance, el |-> selector]
    renderLog       \* the invocations of the root render function

vars == <<pc, status, thrown, trace, evaluated, productionTip, router,
          roots, mounts, renderLog>>

\* What main.ts itself writes (renderLog is written by the framework's callback).
mainVars == <<pc, status, thrown, trace, evaluated, productionTip, router,
              roots, mounts>>

----------------------------------------------------------------------------
\* Bounds and input domains

\* How many times the framework invokes the root render function in a run.
MaxRenders == 3

\* The objects the router module may export as its default export.
Routers == {"routerA", "routerB"}

\* The components an element factory may be asked for.
Components == {"App", "Other"}

\* The element factories the render function may be called with: the
\* framework's createElement, a test stub, and a factory that ignores its
\* argument.
Factories == {"createElement", "stubElement", "constantElement"}

\* The node factory x returns for component c.
Apply(x, c) ==
    CASE x = "createElement"   -> [by |-> "createElement", of |-> c]
      [] x = "stubElement"     -> [by |-> "stubElement", of |-> c]
      [] x = "constantElement" -> [by |-> "constantElement", of |-> "Other"]

----------------------------------------------------------------------------
\* main.ts, statement by statement

ProgramNoServiceWorker ==
    << "import vue", "import ./App.vue", "import ./router",
       "Vue.config.productionTip = false", "new Vue", "$mount" >>

ProgramLateServiceWorker ==
    << "import vue", "import ./App.vue", "import ./router",
       "Vue.config.productionTip = false", "new Vue", "$mount",
       "import ./registerServiceWorker" >>

ProgramSwapped ==
    << "import vue", "import ./App.vue", "import ./router",
       "import ./registerServiceWorker",
       "Vue.config.productionTip = false", "new Vue", "$mount" >>

\* Lines 1-4 (imports, evaluated in this order), 6, 8-10 and 11.
Program ==
    << "import vue", "import ./App.vue", "import ./registerServiceWorker",
       "import ./router",
       "Vue.config.productionTip = false", "new Vue", "$mount" >>

Imports == { "import vue", "import ./App.vue",
             "import ./registerServiceWorker", "import ./router" }

AtStatement(s) ==
    /\ status = "running"
    /\ pc <= Len(Program)
    /\ Program[pc] = s

AdvanceRepeat ==
    /\ pc' = pc
    /\ status' = "running"

\* The statement at pc returned: control goes to the next one, and the script
\* is done after the last.
Advance ==
    /\ pc' = pc + 1
    /\ status' = IF pc + 1 > Len(Program) THEN "done" ELSE "running"

ThrowCaught(s) ==
    /\ thrown' = s
    /\ Advance

\* The call made by statement s threw: main.ts has no handler, the exception
\* leaves the script and no later statement runs.
Throw(s) ==
    /\ thrown' = s
    /\ status' = "failed"
    /\ pc' = pc

\* import m: the module is evaluated and returns.  Evaluating vue defines
\* Vue.config.productionTip with the build's default; evaluating ./router
\* produces the router object.
ImportReturn(s) ==
    /\ s \in Imports
    /\ AtStatement(s)
    /\ trace' = Append(trace, s)
    /\ evaluated' = Append(evaluated, s)
    /\ IF s = "import vue"
         THEN \E d \in BOOLEAN : productionTip' = d
         ELSE UNCHANGED productionTip
    /\ IF s = "import ./router"
         THEN \E r \in Routers : router' = r
         ELSE UNCHANGED router
    /\ Advance
    /\ UNCHANGED <<thrown, roots, mounts, renderLog>>

\* import m: the evaluation of the module throws.
ImportThrow(s) ==
    /\ s \in Imports
    /\ AtStatement(s)
    /\ trace' = Append(trace, s)
    /\ Throw(s)
    /\ UNCHANGED <<evaluated, productionTip, router, roots, mounts, renderLog>>

NewProductionTipKept == productionTip

\* Line 6: the value assigned.
NewProductionTip == FALSE

\* Line 6: Vue.config.productionTip = false
SetProductionTip ==
    /\ AtStatement("Vue.config.productionTip = false")
    /\ trace' = Append(trace, "Vue.config.productionTip = false")
    /\ productionTip' = NewProductionTip
    /\ Advance
    /\ UNCHANGED <<thrown, evaluated, router, roots, mounts, renderLog>>

RootOptionsNoRouter == [router |-> "undefined", render |-> "x => x(App)"]

\* Lines 8-11: the options object { router, render: x => x(App) }.
RootOptions == [router |-> router, render |-> "x => x(App)"]

\* Lines 8-11: new Vue(options) returns the instance.
NewVueReturn ==
    /\ AtStatement("new Vue")
    /\ trace' = Append(trace, "new Vue")
    /\ roots' = Append(roots, RootOptions)
    /\ Advance
    /\ UNCHANGED <<thrown, evaluated, productionTip, router, mounts, renderLog>>

\* Lines 8-11: the constructor throws.
NewVueThrow ==
    /\ AtStatement("new Vue")
    /\ trace' = Append(trace, "new Vue")
    /\ Throw("new Vue")
    /\ UNCHANGED <<evaluated, productionTip, router, roots, mounts, renderLog>>

MountTargetRoot == "#root"

\* Line 11: the selector passed to $mount.
MountTarget == "#app"

\* Line 11: .$mount('#app') is called on the instance the constructor returned.
MountCall ==
    /\ AtStatement("$mount")
    /\ roots # << >>
    /\ trace' = Append(trace, "$mount")
    /\ mounts' = Append(mounts, [vm |-> Len(roots), el |-> MountTarget])
    /\ status' = "in $mount"
    /\ UNCHANGED <<pc, thrown, evaluated, productionTip, router, roots, renderLog>>

\* Line 11: $mount returns; it is the last statement.
MountReturn ==
    /\ status = "in $mount"
    /\ Advance
    /\ UNCHANGED <<thrown, trace, evaluated, productionTip, router, roots,
                   mounts, renderLog>>

\* Line 11: $mount throws (for instance on a missing target).
MountThrow ==
    /\ status = "in $mount"
    /\ Throw("$mount")
    /\ UNCHANGED <<trace, evaluated, productionTip, router, roots, mounts,
                   renderLog>>

renderTwice(x) ==
    [x |-> x, calls |-> <<"App", "App">>, result |-> Apply(x, "App")]

\* Line 10: render: x => x(App).  One call of x, with App; its value is returned.
render(x) ==
    [x |-> x, calls |-> <<"App">>, result |-> Apply(x, "App")]

\* The framework invokes the root's render function with a factory of its
\* choice, during $mount or at any later re-render.
RenderCall ==
    /\ mounts # << >>
    /\ Len(renderLog) < MaxRenders
    /\ \E x \in Factories : renderLog' = Append(renderLog, render(x))
    /\ UNCHANGED mainVars

----------------------------------------------------------------------------

Init ==
    /\ pc = 1
    /\ status = "running"
    /\ thrown = "none"
    /\ trace = << >>
    /\ evaluated = << >>
    /\ productionTip = "undefined"
    /\ router = "undefined"
    /\ roots = << >>
    /\ mounts = << >>
    /\ renderLog = << >>

\* The steps of main.ts itself.
Main ==
    \/ \E s \in Imports : ImportReturn(s)
    \/ \E s \in Imports : ImportThrow(s)
    \/ SetProductionTip
    \/ NewVueReturn
    \/ NewVueThrow
    \/ MountCall
    \/ MountReturn
    \/ MountThrow

Next == Main \/ RenderCall

Spec == Init /\ [][Next]_vars

\* The script runs to completion: the engine keeps executing main.ts, and
\* every call it makes returns or throws.
FairSpec == Spec /\ WF_vars(Main)

----------------------------------------------------------------------------
\* Properties

Range(q) == { q[i] : i \in 1..Len(q) }

IsPrefix(p, q) == Len(p) <= Len(q) /\ \A i \in 1..Len(p) : p[i] = q[i]

\* The position of statement s in the trace, 0 when it has not started.
Pos(s) == IF s \in Range(trace)
            THEN CHOOSE i \in 1..Len(trace) : trace[i] = s
            ELSE 0

NoRepeat == Cardinality(Range(trace)) = Len(trace)

\* C1: a run that completes without a failure has performed all five startup
\* effects: the service-worker module and the router module are evaluated,
\* productionTip is false, one root instance exists and $mount was called on it.
C1_AllStartupEffects ==
    status = "done" =>
        /\ "import ./registerServiceWorker" \in Range(evaluated)
        /\ "import ./router" \in Range(evaluated)
        /\ productionTip = FALSE
        /\ Len(roots) = 1
        /\ Len(mounts) = 1
        /\ mounts[1].vm = 1

C1_Witness ==
    /\ status = "done"
    /\ thrown = "none"
    /\ Len(evaluated) = 4
    /\ Len(mounts) = 1

\* C2: the statements of main.ts start in one fixed order (vue, App.vue,
\* registerServiceWorker, router, the productionTip assignment, new Vue,
\* $mount), each at most once, and once $mount has returned no step of
\* main.ts changes anything.
C2_SingleSequence ==
    /\ [](/\ IsPrefix(trace,
                 << "import vue", "import ./App.vue",
                    "import ./registerServiceWorker", "import ./router",
                    "Vue.config.productionTip = false", "new Vue", "$mount" >>)
          /\ IsPrefix(evaluated,
                 << "import vue", "import ./App.vue",
                    "import ./registerServiceWorker", "import ./router" >>))
    /\ [][status = "done" => UNCHANGED mainVars]_vars

C2_Witness ==
    /\ status = "done"
    /\ Len(trace) = 7
    /\ trace[7] = "$mount"
    /\ Len(renderLog) = 2

\* C3: $mount is called at most once, on the single root instance, with the
\* selector '#app'; there is never a second root instance.
C3_MountOnceOnApp ==
    /\ Len(mounts) <= 1
    /\ Len(roots) <= 1
    /\ \A i \in 1..Len(mounts) : mounts[i].el = "#app" /\ mounts[i].vm = 1

C3_Witness ==
    /\ Len(mounts) = 1
    /\ Len(roots) = 1
    /\ mounts[1].el = "#app"
    /\ status = "done"

\* C4: productionTip is false whenever a root instance exists or $mount has
\* been called, and once line 6 has run it is false in every later state.
C4_ProductionTipFalse ==
    /\ []((roots # << >> \/ mounts # << >>) => productionTip = FALSE)
    /\ []("Vue.config.productionTip = false" \in Range(trace)
              => productionTip = FALSE)
    /\ []("new Vue" \in Range(trace)
              => 0 < Pos("Vue.config.productionTip = false")
                 /\ Pos("Vue.config.productionTip = false") < Pos("new Vue"))

C4_Witness ==
    /\ status = "in $mount"
    /\ Len(mounts) = 1
    /\ productionTip = FALSE
    /\ Pos("Vue.config.productionTip = false") = 5

\* C5: a failing step is not caught, retried or skipped over: the script is
\* failed at that step, no later statement ever starts, and a failure of an
\* import or of the constructor leaves no root instance and no $mount call.
C5_NoErrorHandling ==
    /\ [](thrown # "none" =>
             /\ status = "failed"
             /\ trace # << >>
             /\ trace[Len(trace)] = thrown
             /\ NoRepeat
             /\ (thrown # "$mount" => roots = << >> /\ mounts = << >>))
    /\ [][status = "failed" => UNCHANGED mainVars]_vars

C5_Witness ==
    /\ status = "failed"
    /\ thrown = "import ./router"
    /\ roots = << >>
    /\ mounts = << >>

\* C6: the root instance is constructed after the router module has been
\* evaluated and holds the router object in its options from construction on,
\* so it holds it in every state in which $mount has been called.
C6_RouterWiredAtConstruction ==
    /\ [](\A i \in 1..Len(roots) :
             /\ "import ./router" \in Range(evaluated)
             /\ router \in Routers
             /\ roots[i].router = router)
    /\ [](mounts # << >> => roots[mounts[1].vm].router \in Routers)
    /\ [][\A i \in 1..Len(roots) : roots'[i] = roots[i]]_vars

C6_Witness ==
    /\ Len(mounts) = 1
    /\ roots[1].router = "routerB"
    /\ status = "done"

\* C7: in every run that reaches new Vue the registerServiceWorker module has
\* been evaluated, before the router module and before productionTip is
\* assigned; a run whose $mount fails has it evaluated too.
C7_ServiceWorkerBeforeMount ==
    ("new Vue" \in Range(trace) \/ thrown = "$mount") =>
        /\ "import ./registerServiceWorker" \in Range(evaluated)
        /\ 0 < Pos("import ./registerServiceWorker")
        /\ Pos("import ./registerServiceWorker") < Pos("import ./router")
        /\ Pos("import ./registerServiceWorker")
               < Pos("Vue.config.productionTip = false")
        /\ Pos("import ./registerServiceWorker") < Pos("new Vue")

C7_Witness ==
    /\ thrown = "$mount"
    /\ status = "failed"
    /\ "import ./registerServiceWorker" \in Range(evaluated)

\* C8: every invocation of the root render function calls the factory it is
\* given exactly once, with App, and returns that call's result; with a
\* factory that builds a node of the component it is given, the result is an
\* App node; the same factory always gives the same result.
C8_RenderIsApp ==
    /\ \A i \in 1..Len(renderLog) :
          /\ renderLog[i].calls = <<"App">>
          /\ renderLog[i].result = Apply(renderLog[i].x, "App")
          /\ (renderLog[i].x \in {"createElement", "stubElement"}
                 => renderLog[i].result.of = "App")
    /\ \A i, j \in 1..Len(renderLog) :
          renderLog[i].x = renderLog[j].x => renderLog[i] = renderLog[j]

C8_Witness ==
    /\ Len(renderLog) = 3
    /\ renderLog[1].x = "createElement"
    /\ renderLog[2].x = "stubElement"
    /\ renderLog[3].x = "createElement"
    /\ renderLog[1].result.of = "App"

\* C9: the bootstrap reaches a final state (mounted or failed) after at most
\* seven statements, none of them started twice.
C9_Terminates ==
    /\ <>(status \in {"done", "failed"})
    /\ [](Len(trace) <= 7 /\ NoRepeat)

C9_Witness ==
    /\ status = "done"
    /\ Len(trace) = 7
    /\ NoRepeat

====
